---- MODULE Spec2Model ----
(***************************************************************************)
(* A model of the two programs of the repository:                          *)
(*   - QMenuWidget (Packages/qtbrowser/Lib/mainMenuWidget.py): the three   *)
(*     menu handlers stats, seasons and setBounds, acting on the pool of   *)
(*     defined variables, the session transcript (root.record) and the     *)
(*     cdutil library;                                                     *)
(*   - scripts/install_nightly.py: the three installation steps and the    *)
(*     exit code of the process.                                           *)
(* Python strings are sequences of one-character strings, so that lower(), *)
(* split(), join() and the % formatting are computed, not assumed.         *)
(***************************************************************************)
EXTENDS Integers, Sequences, FiniteSets, TLC

VARIABLES pool, transcript, calls, pop, exc, last, nact,
          ipc, workdir, py_ver, status, conda_path, ran, exitCode

menuVars == <<pool, transcript, calls, pop, exc, last, nact>>
instVars == <<ipc, workdir, py_ver, status, conda_path, ran, exitCode>>
vars == <<pool, transcript, calls, pop, exc, last, nact,
          ipc, workdir, py_ver, status, conda_path, ran, exitCode>>

(* ------------------------------ bounds --------------------------------- *)
\* handler invocations in one session
MaxActions == 1
\* variables selected in the defined-variable widget at one time
MaxSel == 2
\* largest status code a step of the installer returns
MaxStatus == 3

(* ------------------- the string literals of the menu ------------------- *)
\* mainMenuWidget.py:35-41, the actions of the "Bounds Set" menu

lblYearly == <<"S","e","t"," ","B","o","u","n","d","s"," ","F","o","r"," ","Y","e","a","r","l","y"," ","D","a","t","a">>
lblMonthly == <<"S","e","t"," ","B","o","u","n","d","s"," ","F","o","r"," ","M","o","n","t","h","l","y"," ","D","a","t","a">>
lblDaily == <<"S","e","t"," ","B","o","u","n","d","s"," ","F","o","r"," ","D","a","i","l","y"," ","D","a","t","a">>
lblTwiceDaily == <<"S","e","t"," ","B","o","u","n","d","s"," ","F","o","r"," ","T","w","i","c","e","-","d","a","i","l","y"," ","D","a","t","a">>
lbl6Hourly == <<"S","e","t"," ","B","o","u","n","d","s"," ","F","o","r"," ","6","-","H","o","u","r","l","y"," ","D","a","t","a">>
lblHourly == <<"S","e","t"," ","B","o","u","n","d","s"," ","F","o","r"," ","H","o","u","r","l","y"," ","D","a","t","a">>
lblXDaily == <<"S","e","t"," ","B","o","u","n","d","s"," ","F","o","r"," ","X","-","D","a","i","l","y"," ","D","a","t","a">>

\* mainMenuWidget.py:151-175, the header comments recorded by setBounds

hdrYearly == <<"#","#"," ","S","e","t"," ","B","o","u","n","d","s"," ","F","o","r"," ","Y","e","a","r","l","y"," ","D","a","t","a">>
hdrMonthly == <<"#","#"," ","S","e","t"," ","B","o","u","n","d","s"," ","F","o","r"," ","M","o","n","t","h","l","y"," ","D","a","t","a">>
hdrDaily == <<"#","#"," ","S","e","t"," ","B","o","u","n","d","s"," ","F","o","r"," ","D","a","i","l","y"," ","D","a","t","a">>
hdrTwiceDaily == <<"#","#"," ","S","e","t"," ","B","o","u","n","d","s"," ","F","o","r"," ","T","w","i","c","e","-","d","a","i","l","y"," ","D","a","t","a">>
hdr6Hourly == <<"#","#"," ","S","e","t"," ","B","o","u","n","d","s"," ","F","o","r"," ","6","-","H","o","u","r","l","y"," ","D","a","t","a">>
hdrHourly == <<"#","#"," ","S","e","t"," ","B","o","u","n","d","s"," ","F","o","r"," ","H","o","u","r","l","y"," ","D","a","t","a">>
hdrXDaily == <<"#","#"," ","S","e","t"," ","B","o","u","n","d","s"," ","F","o","r"," ","X","-","D","a","i","l","y"," ","D","a","t","a">>

\* mainMenuWidget.py:152-176, the text before %s in the recorded calls

recYearly == <<"c","d","u","t","i","l",".","t","i","m","e","s",".","s","e","t","T","i","m","e","B","o","u","n","d","s","Y","e","a","r","l","y","(">>
recMonthly == <<"c","d","u","t","i","l",".","t","i","m","e","s",".","s","e","t","T","i","m","e","B","o","u","n","d","s","M","o","n","t","h","l","y","(">>
recDaily == <<"c","d","u","t","i","l",".","t","i","m","e","s",".","s","e","t","T","i","m","e","B","o","u","n","d","D","a","i","l","y","(">>

\* the attribute names on the path to the functions that are called

sCdutil == <<"c","d","u","t","i","l">>
sTimes == <<"t","i","m","e","s">>
sSetTimeBoundsYearly == <<"s","e","t","T","i","m","e","B","o","u","n","d","s","Y","e","a","r","l","y">>
sSetTimeBoundsMonthly == <<"s","e","t","T","i","m","e","B","o","u","n","d","s","M","o","n","t","h","l","y">>
sSetTimeBoundsDaily == <<"s","e","t","T","i","m","e","B","o","u","n","d","s","D","a","i","l","y">>
sYEAR == <<"Y","E","A","R">>
sSEASONALCYCLE == <<"S","E","A","S","O","N","A","L","C","Y","C","L","E">>
sANNUALCYCLE == <<"A","N","N","U","A","L","C","Y","C","L","E">>
sClimatologyAttr == <<"c","l","i","m","a","t","o","l","o","g","y">>
sDeparturesAttr == <<"d","e","p","a","r","t","u","r","e","s">>

\* mainMenuWidget.py:102-124, the strings of seasons

nmYEAR == <<"c","d","u","t","i","l",".","t","i","m","e","s",".","Y","E","A","R">>
nmSEASONALCYCLE == <<"c","d","u","t","i","l",".","t","i","m","e","s",".","S","E","A","S","O","N","A","L","C","Y","C","L","E">>
nmANNUALCYCLE == <<"c","d","u","t","i","l",".","t","i","m","e","s",".","A","N","N","U","A","L","C","Y","C","L","E">>
nmPrefix == <<"c","d","u","t","i","l",".","t","i","m","e","s",".">>
nmClimatology == <<".","c","l","i","m","a","t","o","l","o","g","y">>
nmDepartures == <<".","d","e","p","a","r","t","u","r","e","s">>
recComputing == <<"#","#"," ","C","o","m","p","u","t","i","n","g"," ">>
recClimatological == <<"c","l","i","m","a","t","o","l","o","g","i","c","a","l"," ">>
recDeparturesFrom == <<"d","e","p","a","r","t","u","r","e","s"," ","f","r","o","m"," ">>

\* mainMenuWidget.py:44, the three menus connected to seasons

mExtract == <<"E","x","t","r","a","c","t">>
mClimatology == <<"C","l","i","m","a","t","o","l","o","g","y">>
mDepartures == <<"D","e","p","a","r","t","u","r","e","s">>

\* mainMenuWidget.py:47-58, the actions of each of these menus

lblAnnualMeans == <<"A","n","n","u","a","l"," ","M","e","a","n","s">>
lblSeasonalMeans == <<"S","e","a","s","o","n","a","l"," ","M","e","a","n","s">>
lblDJF == <<"D","J","F">>
lblMAM == <<"M","A","M">>
lblJJA == <<"J","J","A">>
lblSON == <<"S","O","N">>
lblMonthlyMeans == <<"M","o","n","t","h","l","y"," ","M","e","a","n","s">>
lblJAN == <<"J","A","N">>
lblFEB == <<"F","E","B">>
lblMAR == <<"M","A","R">>
lblAPR == <<"A","P","R">>
lblMAY == <<"M","A","Y">>
lblJUN == <<"J","U","N">>
lblJUL == <<"J","U","L">>
lblAUG == <<"A","U","G">>
lblSEP == <<"S","E","P">>
lblOCT == <<"O","C","T">>
lblNOV == <<"N","O","V">>
lblDEC == <<"D","E","C">>

\* a label that no menu holds

lblWeeklyMeans == <<"W","e","e","k","l","y"," ","M","e","a","n","s">>

\* mainMenuWidget.py:63-77, the keys of statsFuncs

stMean == <<"M","e","a","n">>
stVariance == <<"V","a","r","i","a","n","c","e">>
stStandardDeviation == <<"S","t","a","n","d","a","r","d"," ","D","e","v","i","a","t","i","o","n">>
stRootMeanSquare == <<"R","o","o","t"," ","M","e","a","n"," ","S","q","u","a","r","e">>
stCorrelation == <<"C","o","r","r","e","l","a","t","i","o","n">>
stLaggedCorelation == <<"L","a","g","g","e","d"," ","C","o","r","e","l","a","t","i","o","n">>
stCovariance == <<"C","o","v","a","r","i","a","n","c","e">>
stLaggedCovariance == <<"L","a","g","g","e","d"," ","C","o","v","a","r","i","a","n","c","e">>
stAutocorrelation == <<"A","u","t","o","c","o","r","r","e","l","a","t","i","o","n">>
stAutocovariance == <<"A","u","t","o","c","o","v","a","r","i","a","n","c","e">>
stMeanAbsoluteDifference == <<"M","e","a","n"," ","A","b","s","o","l","u","t","e"," ","D","i","f","f","e","r","e","n","c","e">>
stLinearRegression == <<"L","i","n","e","a","r"," ","R","e","g","r","e","s","s","i","o","n">>
stGeometricMean == <<"G","e","o","m","e","t","r","i","c"," ","M","e","a","n">>
stMedian == <<"M","e","d","i","a","n">>
stRankIn == <<"R","a","n","k"," ","(","i","n"," ","%",")">>

(* ------------------------- Python string methods ----------------------- *)
UpperCase == <<"A","B","C","D","E","F","G","H","I","J","K","L","M","N","O","P","Q","R","S","T","U","V","W","X","Y","Z">>
LowerCase == <<"a","b","c","d","e","f","g","h","i","j","k","l","m","n","o","p","q","r","s","t","u","v","w","x","y","z">>
Whitespace == {" ", "\t", "\n", "\r"}
Digits == <<"0","1","2","3","4","5","6","7","8","9">>

UpperSet == {UpperCase[i] : i \in 1..26}

\* the lower-case letter of each upper-case letter
LowerOf == [c \in UpperSet |-> LowerCase[CHOOSE i \in 1..26 : UpperCase[i] = c]]

\* one character of str.lower()
LowerChar(c) == IF c \in UpperSet THEN LowerOf[c] ELSE c

\* str.lower()
Lower(s) == [i \in 1..Len(s) |-> LowerChar(s[i])]

RECURSIVE SplitFrom(_, _, _, _)
SplitFrom(s, i, word, acc) ==
  IF i > Len(s)
    THEN (IF word = <<>> THEN acc ELSE Append(acc, word))
    ELSE IF s[i] \in Whitespace
      THEN SplitFrom(s, i + 1, <<>>, IF word = <<>> THEN acc ELSE Append(acc, word))
      ELSE SplitFrom(s, i + 1, Append(word, s[i]), acc)

\* str.split() without a separator: the words between runs of whitespace
Split(s) == SplitFrom(s, 1, <<>>, <<>>)

RECURSIVE Join(_, _)
\* sep.join(words)
Join(sep, words) ==
  IF words = <<>> THEN <<>>
  ELSE IF Len(words) = 1 THEN words[1]
  ELSE words[1] \o sep \o Join(sep, Tail(words))

RECURSIVE Decimal(_)
Decimal(n) == IF n < 10 THEN <<Digits[n + 1]>> ELSE Decimal(n \div 10) \o <<Digits[(n % 10) + 1]>>

\* "%g" % val for the values the frequency prompt returns here: a positive
\* whole number below 10^6, which %g prints with all its digits and no point
FormatG(val) == Decimal(val)

(* --------------------------- the session ------------------------------- *)
\* the variables defined when the menu bar is built (root.definedVar)
InitPool ==
  << [id |-> <<"t","a","s">>, bounds |-> <<>>],
     [id |-> <<"P","r">>, bounds |-> <<>>] >>

\* what the recorder (root.record) holds when the menu bar is built
InitTranscript == <<>>

\* the values QInputDialog.getDouble returns
Vals == {0 - 1, 0, 2, 12}

\* no frequency prompt was shown
NoDialog == [ok |-> FALSE, val |-> 0]

\* getSelectedDefinedVariables(): the selected variables, as positions in the
\* pool, in the order of the list of defined variables
Sels ==
  { s \in UNION { [1..n -> 1..Len(pool)] : n \in 0..MaxSel } :
      \A i, j \in DOMAIN s : i < j => s[i] < s[j] }

BoundsLabels == {lblYearly, lblMonthly, lblDaily, lblTwiceDaily, lbl6Hourly, lblHourly, lblXDaily}

MenuTitles == {mExtract, mClimatology, mDepartures}

SeasonLabels ==
  {lblAnnualMeans, lblSeasonalMeans, lblDJF, lblMAM, lblJJA, lblSON, lblMonthlyMeans,
   lblJAN, lblFEB, lblMAR, lblAPR, lblMAY, lblJUN, lblJUL, lblAUG, lblSEP, lblOCT, lblNOV, lblDEC}

\* the names cdutil.times resolves with getattr: its season objects
TimesAttrs ==
  {sYEAR, sSEASONALCYCLE, sANNUALCYCLE, lblDJF, lblMAM, lblJJA, lblSON,
   lblJAN, lblFEB, lblMAR, lblAPR, lblMAY, lblJUN, lblJUL, lblAUG, lblSEP, lblOCT, lblNOV, lblDEC}

Centered == [name |-> "centered", values |-> <<>>]
Biased == [name |-> "biased", values |-> <<>>]
Partial == [name |-> "partial", values |-> <<>>]
NoLoop == [name |-> "noloop", values |-> <<>>]
MaxPct == [name |-> "max_pct_missingoptions", values |-> <<>>]
Lag == [name |-> "lag", values |-> <<"None", "len">>]

\* self.statsFuncs
statsFuncs ==
  (stMean :> [func |-> "cdutil.averager", nargsMin |-> 1, nargsMax |-> 2]) @@
  (stVariance :> [func |-> "genutil.statistics.variance", nargsMin |-> 1, nargsMax |-> 2,
                  choices |-> <<Centered, Biased, MaxPct>>]) @@
  (stStandardDeviation :> [func |-> "genutil.statistics.std", nargsMin |-> 1, nargsMax |-> 2,
                  choices |-> <<Centered, Biased, MaxPct>>]) @@
  (stRootMeanSquare :> [func |-> "genutil.statistics.rms", nargsMin |-> 2, nargsMax |-> 3,
                  choices |-> <<Centered, Biased, MaxPct>>]) @@
  (stCorrelation :> [func |-> "genutil.statistics.correlation", nargsMin |-> 2, nargsMax |-> 3,
                  choices |-> <<Centered, Biased, MaxPct>>]) @@
  (stLaggedCorelation :> [func |-> "genutil.statistics.laggedcorrelation", nargsMin |-> 2, nargsMax |-> 2,
                  choices |-> <<Centered, Partial, Biased, NoLoop, Lag>>]) @@
  (stCovariance :> [func |-> "genutil.statistics.covariance", nargsMin |-> 2, nargsMax |-> 3,
                  choices |-> <<Centered, Biased, MaxPct>>]) @@
  (stLaggedCovariance :> [func |-> "genutil.statistics.laggedcovariance", nargsMin |-> 2, nargsMax |-> 2,
                  choices |-> <<Centered, Partial, NoLoop, Lag>>]) @@
  (stAutocorrelation :> [func |-> "genutil.statistics.autocorrelation", nargsMin |-> 1, nargsMax |-> 1,
                  choices |-> <<Centered, Partial, Biased, NoLoop, Lag>>]) @@
  (stAutocovariance :> [func |-> "genutil.statistics.autocovariance", nargsMin |-> 1, nargsMax |-> 1,
                  choices |-> <<Centered, Partial, NoLoop, Lag>>]) @@
  (stMeanAbsoluteDifference :> [func |-> "genutil.statistics.meanabsdiff", nargsMin |-> 2, nargsMax |-> 3,
                  choices |-> <<Centered>>]) @@
  (stLinearRegression :> [func |-> "genutil.statistics.linearregression", nargsMin |-> 1, nargsMax |-> 2,
                  choices |-> <<[name |-> "error", values |-> <<"0", "1", "2", "3">>],
                                [name |-> "probability", values |-> <<>>],
                                [name |-> "nointercept", values |-> <<>>],
                                [name |-> "noslope", values |-> <<>>]>>]) @@
  (stGeometricMean :> [func |-> "genutil.statistics.geometricmean", nargsMin |-> 1, nargsMax |-> 1]) @@
  (stMedian :> [func |-> "genutil.statistics.median", nargsMin |-> 1, nargsMax |-> 1]) @@
  (stRankIn :> [func |-> "genutil.statistics.rank", nargsMin |-> 1, nargsMax |-> 1])

\* the labels the handlers are tried with: those of their menus and others
StatsInputs == DOMAIN statsFuncs \cup {lblWeeklyMeans}
SeasonInputs == SeasonLabels \cup {lblWeeklyMeans, sYEAR}
BoundsInputs == BoundsLabels \cup {lblWeeklyMeans}

(* ------------------------------- stats --------------------------------- *)
\* fault variant of StatsLookup: a missing key gives a default descriptor
\* (statsFuncs.get) instead of a KeyError
StatsLookup_Default(nm) ==
  IF nm \in DOMAIN statsFuncs
    THEN [raised |-> FALSE, defs |-> <<statsFuncs[nm]>>]
    ELSE [raised |-> FALSE, defs |-> <<statsFuncs[stMean]>>]

\* fault variant of StatsLookup: the descriptor of the first entry whatever
\* the label
StatsLookup_First(nm) ==
  IF nm \in DOMAIN statsFuncs
    THEN [raised |-> FALSE, defs |-> <<statsFuncs[stAutocorrelation]>>]
    ELSE [raised |-> TRUE, defs |-> <<>>]

\* self.statsFuncs[nm]: the descriptor, or a KeyError
StatsLookup(nm) ==
  IF nm \in DOMAIN statsFuncs
    THEN [raised |-> FALSE, defs |-> <<statsFuncs[nm]>>]
    ELSE [raised |-> TRUE, defs |-> <<>>]

stats(nm) ==
  /\ LET d == StatsLookup(nm) IN
       IF d.raised
         THEN /\ exc' = "KeyError"
              /\ UNCHANGED pop
         ELSE /\ exc' = "none"
              /\ pop' = d.defs
  /\ last' = [handler |-> "stats", menu |-> <<>>, nm |-> nm, sel |-> <<>>,
              dlg |-> NoDialog, failAt |-> 0]
  /\ UNCHANGED <<pool, transcript, calls>>
  /\ UNCHANGED instVars

(* ------------------------------ seasons -------------------------------- *)
\* "First which season ?": the function and the name recorded for it
SeasonFunc(nm) ==
  IF nm = lblAnnualMeans
    THEN [raised |-> FALSE, func |-> <<sCdutil, sTimes, sYEAR>>, funcnm |-> nmYEAR]
  ELSE IF nm = lblSeasonalMeans
    THEN [raised |-> FALSE, func |-> <<sCdutil, sTimes, sSEASONALCYCLE>>, funcnm |-> nmSEASONALCYCLE]
  ELSE IF nm = lblMonthlyMeans
    THEN [raised |-> FALSE, func |-> <<sCdutil, sTimes, sANNUALCYCLE>>, funcnm |-> nmANNUALCYCLE]
  ELSE IF nm \in TimesAttrs
    THEN [raised |-> FALSE, func |-> <<sCdutil, sTimes, nm>>, funcnm |-> nmPrefix \o nm]
  ELSE [raised |-> TRUE, func |-> <<>>, funcnm |-> <<>>]

\* "Now which operator?"
SeasonOperator(menu, f) ==
  IF menu = mClimatology
    THEN [f EXCEPT !.func = Append(@, sClimatologyAttr), !.funcnm = @ \o nmClimatology]
  ELSE IF menu = mDepartures
    THEN [f EXCEPT !.func = Append(@, sDeparturesAttr), !.funcnm = @ \o nmDepartures]
  ELSE f

\* nm.lower(), "".join(nm.lower().split()) and menu.lower(), computed once for
\* each label and menu title the handler is tried with
LowerOfLabel == [nm \in SeasonInputs |-> Lower(nm)]
ExtOfLabel == [nm \in SeasonInputs |-> Join(<<>>, Split(Lower(nm)))]
LowerOfMenu == [menu \in MenuTitles |-> Lower(menu)]

\* the header recorded for each variable
SeasonRec(menu, nm) ==
  (IF menu = mClimatology THEN recClimatological
   ELSE IF menu = mDepartures THEN recDeparturesFrom
   ELSE recComputing) \o LowerOfLabel[nm]

\* fault variant of SeasonNewId: the menu title is appended as it is written
SeasonNewId_MenuNotLowered(menu, nm, id) ==
  LET ext == ExtOfLabel[nm]
      newid == id \o <<"_">> \o ext
  IN IF menu # mExtract THEN newid \o menu ELSE newid

\* the identifier given to the result
SeasonNewId(menu, nm, id) ==
  LET ext == ExtOfLabel[nm]
      newid == id \o <<"_">> \o ext
  IN IF menu # mExtract THEN newid \o LowerOfMenu[menu] ELSE newid

\* one turn of the loop over the selected variables; fails: func(v) raises
SeasonsBody(st, menu, nm, f, rec, vi, fails) ==
  LET v == st.pool[vi]
      call == [func |-> f.func, id |-> v.id, args |-> <<>>, ok |-> ~fails]
  IN IF fails
       THEN [st EXCEPT !.calls = Append(@, call), !.exc = "LibraryError"]
       ELSE LET newid == SeasonNewId(menu, nm, v.id)
                tmp == [id |-> newid, bounds |-> v.bounds]
            IN [st EXCEPT
                  !.calls = Append(@, call),
                  !.pool = Append(@, tmp),
                  !.transcript = @ \o << rec,
                                         newid \o <<" ","="," ">> \o f.funcnm
                                           \o <<"(">> \o v.id \o <<")">> >>]

RECURSIVE SeasonsLoop(_, _, _, _, _, _, _, _)
SeasonsLoop(st, menu, nm, f, rec, sel, i, failAt) ==
  IF i > Len(sel) \/ st.exc # "none" THEN st
  ELSE SeasonsLoop(SeasonsBody(st, menu, nm, f, rec, sel[i], i = failAt),
                   menu, nm, f, rec, sel, i + 1, failAt)

seasons(menu, nm, sel, failAt) ==
  /\ LET f0 == SeasonFunc(nm) IN
       IF f0.raised
         THEN /\ failAt = 0
              /\ exc' = "AttributeError"
              /\ UNCHANGED <<pool, transcript, calls>>
         ELSE LET st == SeasonsLoop([pool |-> pool, transcript |-> transcript,
                                     calls |-> calls, exc |-> "none"],
                                    menu, nm, SeasonOperator(menu, f0),
                                    SeasonRec(menu, nm), sel, 1, failAt)
              IN /\ pool' = st.pool
                 /\ transcript' = st.transcript
                 /\ calls' = st.calls
                 /\ exc' = st.exc
  /\ last' = [handler |-> "seasons", menu |-> menu, nm |-> nm, sel |-> sel,
              dlg |-> NoDialog, failAt |-> failAt]
  /\ UNCHANGED pop
  /\ UNCHANGED instVars

(* ------------------------------ setBounds ------------------------------ *)
\* fault variant of Rejected: a frequency of zero is let through
Rejected_ZeroAccepted(ok, val) == ok = FALSE \/ val < 0

\* the test that abandons the action after the frequency prompt
Rejected(ok, val) == ok = FALSE \/ val <= 0

\* fault variant of BoundsCall: 6-hourly data given a frequency of 6
BoundsCall_SixHourlyAsSix(nm, val) ==
  IF nm = lblYearly
    THEN [matched |-> TRUE, func |-> <<sCdutil, sTimes, sSetTimeBoundsYearly>>, args |-> <<>>]
  ELSE IF nm = lblMonthly
    THEN [matched |-> TRUE, func |-> <<sCdutil, sTimes, sSetTimeBoundsMonthly>>, args |-> <<>>]
  ELSE IF nm = lblDaily
    THEN [matched |-> TRUE, func |-> <<sCdutil, sTimes, sSetTimeBoundsDaily>>, args |-> <<>>]
  ELSE IF nm = lblTwiceDaily
    THEN [matched |-> TRUE, func |-> <<sCdutil, sTimes, sSetTimeBoundsDaily>>, args |-> <<2>>]
  ELSE IF nm = lbl6Hourly
    THEN [matched |-> TRUE, func |-> <<sCdutil, sTimes, sSetTimeBoundsDaily>>, args |-> <<6>>]
  ELSE IF nm = lblHourly
    THEN [matched |-> TRUE, func |-> <<sCdutil, sTimes, sSetTimeBoundsDaily>>, args |-> <<24>>]
  ELSE IF nm = lblXDaily
    THEN [matched |-> TRUE, func |-> <<sCdutil, sTimes, sSetTimeBoundsDaily>>, args |-> <<val>>]
  ELSE [matched |-> FALSE, func |-> <<>>, args |-> <<>>]

\* the branch of the label: the function called and the arguments after v
BoundsCall(nm, val) ==
  IF nm = lblYearly
    THEN [matched |-> TRUE, func |-> <<sCdutil, sTimes, sSetTimeBoundsYearly>>, args |-> <<>>]
  ELSE IF nm = lblMonthly
    THEN [matched |-> TRUE, func |-> <<sCdutil, sTimes, sSetTimeBoundsMonthly>>, args |-> <<>>]
  ELSE IF nm = lblDaily
    THEN [matched |-> TRUE, func |-> <<sCdutil, sTimes, sSetTimeBoundsDaily>>, args |-> <<>>]
  ELSE IF nm = lblTwiceDaily
    THEN [matched |-> TRUE, func |-> <<sCdutil, sTimes, sSetTimeBoundsDaily>>, args |-> <<2>>]
  ELSE IF nm = lbl6Hourly
    THEN [matched |-> TRUE, func |-> <<sCdutil, sTimes, sSetTimeBoundsDaily>>, args |-> <<4>>]
  ELSE IF nm = lblHourly
    THEN [matched |-> TRUE, func |-> <<sCdutil, sTimes, sSetTimeBoundsDaily>>, args |-> <<24>>]
  ELSE IF nm = lblXDaily
    THEN [matched |-> TRUE, func |-> <<sCdutil, sTimes, sSetTimeBoundsDaily>>, args |-> <<val>>]
  ELSE [matched |-> FALSE, func |-> <<>>, args |-> <<>>]

\* the branch of the label: the two strings recorded after the call
BoundsRecord(nm, id, val) ==
  IF nm = lblYearly THEN <<hdrYearly, recYearly \o id \o <<")">>>>
  ELSE IF nm = lblMonthly THEN <<hdrMonthly, recMonthly \o id \o <<")">>>>
  ELSE IF nm = lblDaily THEN <<hdrDaily, recDaily \o id \o <<")">>>>
  ELSE IF nm = lblTwiceDaily THEN <<hdrTwiceDaily, recDaily \o id \o <<",","2",")">>>>
  ELSE IF nm = lbl6Hourly THEN <<hdr6Hourly, recDaily \o id \o <<",","4",")">>>>
  ELSE IF nm = lblHourly THEN <<hdrHourly, recDaily \o id \o <<",","2","4",")">>>>
  ELSE IF nm = lblXDaily THEN <<hdrXDaily, recDaily \o id \o <<",">> \o FormatG(val) \o <<")">>>>
  ELSE <<>>

\* fault variant of BoundsBody: the two strings are recorded before the call
BoundsBody_RecordFirst(st, nm, val, vi, fails) ==
  LET v == st.pool[vi]
      c == BoundsCall(nm, val)
      call == [func |-> c.func, id |-> v.id, args |-> c.args, ok |-> ~fails]
  IN IF ~c.matched THEN st
     ELSE IF fails
       THEN [st EXCEPT !.calls = Append(@, call), !.exc = "LibraryError",
                       !.transcript = @ \o BoundsRecord(nm, v.id, val)]
       ELSE [st EXCEPT
               !.calls = Append(@, call),
               !.pool[vi].bounds = <<c.func, c.args>>,
               !.transcript = @ \o BoundsRecord(nm, v.id, val)]

\* one turn of the loop over the selected variables; fails: the call raises
BoundsBody(st, nm, val, vi, fails) ==
  LET v == st.pool[vi]
      c == BoundsCall(nm, val)
      call == [func |-> c.func, id |-> v.id, args |-> c.args, ok |-> ~fails]
  IN IF ~c.matched THEN st
     ELSE IF fails
       THEN [st EXCEPT !.calls = Append(@, call), !.exc = "LibraryError"]
       ELSE [st EXCEPT
               !.calls = Append(@, call),
               !.pool[vi].bounds = <<c.func, c.args>>,
               !.transcript = @ \o BoundsRecord(nm, v.id, val)]

RECURSIVE BoundsLoop(_, _, _, _, _, _)
BoundsLoop(st, nm, val, sel, i, failAt) ==
  IF i > Len(sel) \/ st.exc # "none" THEN st
  ELSE BoundsLoop(BoundsBody(st, nm, val, sel[i], i = failAt),
                  nm, val, sel, i + 1, failAt)

setBounds(nm, dlg, sel, failAt) ==
  /\ IF nm = lblXDaily /\ Rejected(dlg.ok, dlg.val)
       THEN /\ failAt = 0
            /\ exc' = "none"
            /\ UNCHANGED <<pool, transcript, calls>>
       ELSE LET st == BoundsLoop([pool |-> pool, transcript |-> transcript,
                                  calls |-> calls, exc |-> "none"],
                                 nm, dlg.val, sel, 1, failAt)
            IN /\ failAt > 0 => BoundsCall(nm, dlg.val).matched
               /\ pool' = st.pool
               /\ transcript' = st.transcript
               /\ calls' = st.calls
               /\ exc' = st.exc
  /\ last' = [handler |-> "setBounds", menu |-> <<>>, nm |-> nm, sel |-> sel,
              dlg |-> dlg, failAt |-> failAt]
  /\ UNCHANGED pop
  /\ UNCHANGED instVars

\* the results the frequency prompt can give for a label
Dialogs(nm) == IF nm = lblXDaily THEN [ok : BOOLEAN, val : Vals] ELSE {NoDialog}

(* ------------------------- install_nightly.py -------------------------- *)
\* Const.SUCCESS and Const.FAILURE; the Const module is not among the sources,
\* the values are those of the interface description: exit code 0 on full
\* success, nonzero on failure
SUCCESS == 0
FAILURE == 1

\* exitCode while the process runs
Running == 0 - 1

\* the status codes a step returns
Statuses == 0..MaxStatus

\* the values argparse gives workdir and py_ver ("None": the flag is absent)
Workdirs == {"None", "/work", "/tmp/nightly"}
PyVers == {"None", "py2", "py3"}

\* the exit code of the process after sys.exit(code), code an integer
SysExit(code) == code % 256

\* fault variant of StepFailed: the status is not looked at
StepFailed_Never(st) == FALSE

\* "if status != SUCCESS"
StepFailed(st) == st # SUCCESS

\* fault variant of FinalExit: a failure of the last step exits with FAILURE
FinalExit_Generic(st) == IF st # SUCCESS THEN SysExit(FAILURE) ELSE SysExit(SUCCESS)

\* the exit code sys.exit(status) gives after the last step
FinalExit(st) == SysExit(st)

\* conda_setup.install_miniconda(workdir), and the exit when it failed
install_miniconda ==
  /\ ipc = "install_miniconda"
  /\ \E st \in Statuses, p \in {"None", "miniconda"} :
       /\ status' = st
       /\ conda_path' = <<workdir, p>>
       /\ ran' = Append(ran, [step |-> 1, status |-> st])
       /\ IF StepFailed(st)
            THEN /\ exitCode' = SysExit(FAILURE)
                 /\ ipc' = "exited"
            ELSE /\ ipc' = "install"
                 /\ UNCHANGED exitCode
  /\ UNCHANGED <<workdir, py_ver>>
  /\ UNCHANGED menuVars

\* nightly_setup.install(py_ver), and the exit when it failed
install ==
  /\ ipc = "install"
  /\ \E st \in Statuses :
       /\ status' = st
       /\ ran' = Append(ran, [step |-> 2, status |-> st])
       /\ IF StepFailed(st)
            THEN /\ exitCode' = SysExit(FAILURE)
                 /\ ipc' = "exited"
            ELSE /\ ipc' = "install_packages_for_tests"
                 /\ UNCHANGED exitCode
  /\ UNCHANGED <<workdir, py_ver, conda_path>>
  /\ UNCHANGED menuVars

\* nightly_setup.install_packages_for_tests(py_ver), then sys.exit(status)
install_packages_for_tests ==
  /\ ipc = "install_packages_for_tests"
  /\ \E st \in Statuses :
       /\ status' = st
       /\ ran' = Append(ran, [step |-> 3, status |-> st])
       /\ exitCode' = FinalExit(st)
       /\ ipc' = "exited"
  /\ UNCHANGED <<workdir, py_ver, conda_path>>
  /\ UNCHANGED menuVars

(* --------------------------- specifications ---------------------------- *)
MenuStart ==
  /\ pool = InitPool
  /\ calls = <<>>
  /\ pop = <<>>
  /\ exc = "none"
  /\ last = [handler |-> "none", menu |-> <<>>, nm |-> <<>>, sel |-> <<>>,
             dlg |-> NoDialog, failAt |-> 0]
  /\ nact = 0

InstallStart ==
  /\ status = SUCCESS
  /\ conda_path = <<"None", "None">>
  /\ ran = <<>>
  /\ exitCode = Running

\* the menu bar after __init__; the installer is not running
Init ==
  /\ MenuStart
  /\ transcript = InitTranscript
  /\ InstallStart
  /\ ipc = "off"
  /\ workdir = "None"
  /\ py_ver = "None"

\* connect(stats, "triggered(QAction *)", self.stats)
statsTriggered ==
  /\ nact < MaxActions
  /\ nact' = nact + 1
  /\ \E nm \in StatsInputs : stats(nm)

\* connect(m, "triggered(QAction *)", self.seasons), for each of the three menus
seasonsTriggered ==
  /\ nact < MaxActions
  /\ nact' = nact + 1
  /\ \E sel \in Sels : \E failAt \in 0..Len(sel) :
       \E menu \in MenuTitles, nm \in SeasonInputs : seasons(menu, nm, sel, failAt)

\* connect(m, "triggered(QAction *)", self.setBounds)
setBoundsTriggered ==
  /\ nact < MaxActions
  /\ nact' = nact + 1
  /\ \E sel \in Sels : \E failAt \in 0..Len(sel) :
       \E nm \in BoundsInputs : \E dlg \in Dialogs(nm) : setBounds(nm, dlg, sel, failAt)

Next ==
  \/ statsTriggered
  \/ seasonsTriggered
  \/ setBoundsTriggered

Spec == Init /\ [][Next]_vars

\* install_nightly.py after its arguments are parsed; no menu bar
InstallInit ==
  /\ MenuStart
  /\ transcript = InitTranscript
  /\ InstallStart
  /\ ipc = "install_miniconda"
  /\ workdir \in Workdirs
  /\ py_ver \in PyVers

InstallNext ==
  \/ install_miniconda
  \/ install
  \/ install_packages_for_tests

InstallSpec == InstallInit /\ [][InstallNext]_vars

(* ======================== the claims, C1 to C10 ======================== *)
\* the session before and after a step taken by a handler
IsPrefix(s, t) == Len(s) <= Len(t) /\ SubSeq(t, 1, Len(s)) = s
StartsWith(s, p) == Len(p) <= Len(s) /\ SubSeq(s, 1, Len(p)) = p
EndsWith(s, p) == Len(p) <= Len(s) /\ SubSeq(s, Len(s) - Len(p) + 1, Len(s)) = p
Contains(s, p) == \E k \in 0..(Len(s) - Len(p)) : SubSeq(s, k + 1, k + Len(p)) = p

\* the variables a handler got through before it returned or raised
Processed(l) == IF l.failAt = 0 THEN Len(l.sel) ELSE l.failAt - 1

\* the frequency prompt of X-Daily was confirmed with a positive value
ValidDialog(l) == l.nm = lblXDaily => (l.dlg.ok /\ l.dlg.val > 0)

\* what each time-bounds label is to call: the function and the arguments after v
ExpectedBoundsFunc(nm) ==
  CASE nm = lblYearly -> <<"c","d","u","t","i","l",".","t","i","m","e","s",".","s","e","t","T","i","m","e","B","o","u","n","d","s","Y","e","a","r","l","y">>
    [] nm = lblMonthly -> <<"c","d","u","t","i","l",".","t","i","m","e","s",".","s","e","t","T","i","m","e","B","o","u","n","d","s","M","o","n","t","h","l","y">>
    [] nm \in {lblDaily, lblTwiceDaily, lbl6Hourly, lblHourly, lblXDaily} ->
         <<"c","d","u","t","i","l",".","t","i","m","e","s",".","s","e","t","T","i","m","e","B","o","u","n","d","s","D","a","i","l","y">>

ExpectedBoundsArgs(nm, val) ==
  CASE nm \in {lblYearly, lblMonthly, lblDaily} -> <<>>
    [] nm = lblTwiceDaily -> <<2>>
    [] nm = lbl6Hourly -> <<4>>
    [] nm = lblHourly -> <<24>>
    [] nm = lblXDaily -> <<val>>

\* the dotted name of the function a call went to
DottedName(func) == Join(<<".">>, func)

RECURSIVE ArgText(_)
ArgText(args) == IF args = <<>> THEN <<>> ELSE <<",">> \o Decimal(Head(args)) \o ArgText(Tail(args))

\* the text of a call as Python writes it: name(id,arg)
CallText(c) == DottedName(c.func) \o <<"(">> \o c.id \o ArgText(c.args) \o <<")">>

\* the calls that returned
ReturnedCalls == SelectSeq(calls, LAMBDA c : c.ok)

\* one call per selected variable with the arguments of the label, and the
\* entries appended to the transcript number `entries`
BoundsStep(l, entries) ==
  LET n == Len(l.sel) IN
    /\ exc' = "none"
    /\ Len(calls') = Len(calls) + n
    /\ \A j \in 1..n :
         LET c == calls'[Len(calls) + j] IN
           /\ DottedName(c.func) = ExpectedBoundsFunc(l.nm)
           /\ c.args = ExpectedBoundsArgs(l.nm, l.dlg.val)
           /\ c.id = pool[l.sel[j]].id
           /\ c.ok
    /\ Len(transcript') = Len(transcript) + entries

\* C1, as amended: for each of the seven time-bounds labels and any list of n
\* selected variables (a positive confirmed frequency for X-Daily, no call
\* raising), setBounds makes exactly one bound-setting call per selected
\* variable with the arguments of the label, and the transcript grows by one
\* header comment and one call entry per selected variable: 2n entries, each
\* pair a "## <label>" comment followed by the entry of the call.
C1_SetBoundsCallsAndEntries ==
  [][ (last'.handler = "setBounds" /\ last'.nm \in BoundsLabels
         /\ ValidDialog(last') /\ last'.failAt = 0)
      => /\ BoundsStep(last', 2 * Len(last'.sel))
         /\ \A j \in 1..Len(last'.sel) :
              /\ transcript'[Len(transcript) + 2 * j - 1] = <<"#","#"," ">> \o last'.nm
              /\ Contains(transcript'[Len(transcript) + 2 * j], pool[last'.sel[j]].id) ]_vars

\* C1, as stated: ... the transcript grows by exactly one call entry per
\* selected variable plus one header comment, n+1 entries.
C1_AsStated ==
  [][ (last'.handler = "setBounds" /\ last'.nm \in BoundsLabels
         /\ ValidDialog(last') /\ last'.failAt = 0)
      => BoundsStep(last', Len(last'.sel) + 1) ]_vars

\* C1: X-Daily with frequency 12 was applied to two selected variables
C1_Witness ==
  /\ last.handler = "setBounds" /\ last.nm = lblXDaily
  /\ last.dlg = [ok |-> TRUE, val |-> 12]
  /\ Len(last.sel) = 2 /\ last.failAt = 0
  /\ Len(calls) >= 2 /\ Len(transcript) >= 4

\* C2: setBounds with the X-Daily label: when the frequency prompt is
\* cancelled or gives a value <= 0, whatever variables are selected, no
\* bound-setting call is made, no transcript entry is appended, and the
\* transcript and all variables are unchanged.
C2_XDailyRejected ==
  [][ (last'.handler = "setBounds" /\ last'.nm = lblXDaily
         /\ (last'.dlg.ok = FALSE \/ last'.dlg.val <= 0))
      => (calls' = calls /\ transcript' = transcript /\ pool' = pool /\ exc' = "none") ]_vars

\* C2: a confirmed frequency of 0 with two variables selected
C2_Witness ==
  /\ last.handler = "setBounds" /\ last.nm = lblXDaily
  /\ last.dlg = [ok |-> TRUE, val |-> 0]
  /\ Len(last.sel) = 2
  /\ calls = <<>>

\* the label lowercased with all whitespace removed, as Python computes it
ExpectedExt(nm) ==
  CASE nm = lblAnnualMeans -> <<"a","n","n","u","a","l","m","e","a","n","s">>
  [] nm = lblSeasonalMeans -> <<"s","e","a","s","o","n","a","l","m","e","a","n","s">>
  [] nm = lblMonthlyMeans -> <<"m","o","n","t","h","l","y","m","e","a","n","s">>
  [] nm = lblDJF -> <<"d","j","f">>
  [] nm = lblMAM -> <<"m","a","m">>
  [] nm = lblJJA -> <<"j","j","a">>
  [] nm = lblSON -> <<"s","o","n">>
  [] nm = lblJAN -> <<"j","a","n">>
  [] nm = lblFEB -> <<"f","e","b">>
  [] nm = lblMAR -> <<"m","a","r">>
  [] nm = lblAPR -> <<"a","p","r">>
  [] nm = lblMAY -> <<"m","a","y">>
  [] nm = lblJUN -> <<"j","u","n">>
  [] nm = lblJUL -> <<"j","u","l">>
  [] nm = lblAUG -> <<"a","u","g">>
  [] nm = lblSEP -> <<"s","e","p">>
  [] nm = lblOCT -> <<"o","c","t">>
  [] nm = lblNOV -> <<"n","o","v">>
  [] nm = lblDEC -> <<"d","e","c">>

ExpectedMenuSuffix(menu) ==
  CASE menu = mExtract -> <<>>
    [] menu = mClimatology -> <<"c","l","i","m","a","t","o","l","o","g","y">>
    [] menu = mDepartures -> <<"d","e","p","a","r","t","u","r","e","s">>

\* C3: seasons: for every menu, every aggregation label of the menu and
\* every selected variable with identifier id, the variable added to the pool
\* has the identifier id + "_" + the label lowercased without whitespace,
\* followed by the lowercased menu name exactly when the menu is not Extract;
\* and the assignment line recorded has that identifier on its left-hand side.
C3_SeasonsIdentifier ==
  [][ (last'.handler = "seasons" /\ last'.nm \in SeasonLabels)
      => /\ Len(pool') = Len(pool) + Processed(last')
         /\ \A j \in 1..Processed(last') :
              LET want == pool[last'.sel[j]].id \o <<"_">> \o ExpectedExt(last'.nm)
                            \o ExpectedMenuSuffix(last'.menu)
              IN /\ pool'[Len(pool) + j].id = want
                 /\ StartsWith(transcript'[Len(transcript) + 2 * j], want \o <<" ","="," ">>) ]_vars

\* C3: Climatology of "Seasonal Means" over two selected variables
C3_Witness ==
  /\ last.handler = "seasons" /\ last.menu = mClimatology /\ last.nm = lblSeasonalMeans
  /\ Len(last.sel) = 2 /\ last.failAt = 0
  /\ Len(pool) = Len(InitPool) + 2

\* C4: the installer runs its steps in the order 1, 2, 3, a step only when
\* every earlier step returned SUCCESS; when step 1 fails, steps 2 and 3 never
\* run and the exit code is nonzero; when step 2 fails, step 3 never runs and
\* the exit code is nonzero.
C4_StepsShortCircuit ==
  /\ Len(ran) <= 3
  /\ \A i \in 1..Len(ran) : ran[i].step = i
  /\ \A i, j \in 1..Len(ran) : i < j => ran[i].status = SUCCESS
  /\ \A i \in {1, 2} :
       (Len(ran) >= i /\ ran[i].status # SUCCESS)
         => (Len(ran) = i /\ ipc = "exited" /\ exitCode # Running /\ exitCode # 0)
  /\ (ipc # "exited") => exitCode = Running

\* C4: step 1 succeeded, step 2 failed, and the process has exited
C4_Witness ==
  /\ ipc = "exited" /\ Len(ran) = 2
  /\ ran[1].status = SUCCESS /\ ran[2].status = 2
  /\ exitCode = 1

\* C5: when steps 1 and 2 return SUCCESS, the exit code of the process is
\* exactly the status step 3 returned: 0 when all three succeed, and step 3's
\* own code, not the generic FAILURE, when step 3 fails.
C5_ExitIsLastStatus ==
  (Len(ran) = 3)
    => /\ ran[1].status = SUCCESS /\ ran[2].status = SUCCESS
       /\ ipc = "exited"
       /\ exitCode = ran[3].status
       /\ (ran[3].status = SUCCESS <=> exitCode = 0)

\* C5: step 3 failed with a status that is not FAILURE
C5_Witness ==
  /\ ipc = "exited" /\ Len(ran) = 3
  /\ ran[3].status = 3 /\ exitCode = 3

\* a step taken by a handler left the session as it was
SessionUnchanged == calls' = calls /\ pool' = pool /\ transcript' = transcript /\ pop' = pop

\* C6, as amended: a label no handler recognises (for seasons: neither a label
\* of the menu nor a name cdutil.times defines) never leads to a library call,
\* a variable added to the pool, a transcript entry or a configuration prompt;
\* setBounds ignores it silently, while stats raises a KeyError and seasons an
\* AttributeError.
C6_UnknownLabel ==
  [][ /\ (last'.handler = "setBounds" /\ last'.nm \notin BoundsLabels)
         => (SessionUnchanged /\ exc' = "none")
      /\ (last'.handler = "stats" /\ last'.nm \notin DOMAIN statsFuncs)
         => (SessionUnchanged /\ exc' = "KeyError")
      /\ (last'.handler = "seasons" /\ last'.nm \notin SeasonLabels \cup TimesAttrs)
         => (SessionUnchanged /\ exc' = "AttributeError") ]_vars

\* C6, as stated: for each of the three handlers an unrecognised label is
\* silently ignored: no exception, no library call, no variable added, no
\* transcript entry.
C6_AsStated ==
  [][ (last'.handler \in {"setBounds", "stats", "seasons"} /\ last'.nm = lblWeeklyMeans)
      => (SessionUnchanged /\ exc' = "none") ]_vars

\* C6: seasons was given a label of no menu while two variables were selected
C6_Witness ==
  /\ last.handler = "seasons" /\ last.nm = lblWeeklyMeans
  /\ Len(last.sel) = 2
  /\ exc = "AttributeError"

\* C7: every call entry appended to the transcript by setBounds or seasons
\* records the exact call that was made: the name of the function invoked,
\* the identifier of the variable and the arguments passed.
C7_RecordedCallIsCallMade ==
  /\ Len(transcript) = 2 * Len(ReturnedCalls)
  /\ \A i \in 1..Len(ReturnedCalls) : EndsWith(transcript[2 * i], CallText(ReturnedCalls[i]))

\* C8: when the library call fails on the k-th selected variable, the effects
\* for variables 1..k-1 (bounds set, variables added, transcript entries)
\* stay as they were made, no entry is appended for the failing variable, and
\* the transcript is only ever extended.
C8_PartialFailure ==
  [][ /\ IsPrefix(transcript, transcript')
      /\ IsPrefix(calls, calls')
      /\ (last'.handler \in {"setBounds", "seasons"} /\ last'.failAt > 0)
         => LET k == last'.failAt
                sel == last'.sel
            IN /\ exc' = "LibraryError"
               /\ Len(calls') = Len(calls) + k
               /\ \A j \in 1..k :
                    /\ calls'[Len(calls) + j].id = pool[sel[j]].id
                    /\ calls'[Len(calls) + j].ok = (j < k)
               /\ Len(transcript') = Len(transcript) + 2 * (k - 1)
               /\ \A j \in 1..(k - 1) :
                    Contains(transcript'[Len(transcript) + 2 * j], pool[sel[j]].id)
               /\ IF last'.handler = "seasons"
                    THEN /\ IsPrefix(pool, pool')
                         /\ Len(pool') = Len(pool) + (k - 1)
                    ELSE /\ Len(pool') = Len(pool)
                         /\ \A i \in 1..Len(pool) :
                              IF \E j \in 1..(k - 1) : sel[j] = i
                                THEN /\ pool'[i].id = pool[i].id
                                     /\ pool'[i].bounds =
                                          <<calls'[Len(calls) + 1].func, calls'[Len(calls) + 1].args>>
                                ELSE pool'[i] = pool[i] ]_vars

\* C8: setBounds failed on the second of two selected variables
C8_Witness ==
  /\ last.handler = "setBounds" /\ last.nm = lblMonthly
  /\ Len(last.sel) = 2 /\ last.failAt = 2
  /\ exc = "LibraryError"
  /\ pool[last.sel[1]].bounds # <<>>
  /\ pool[last.sel[2]].bounds = <<>>

StatsLabels ==
  {stMean, stVariance, stStandardDeviation, stRootMeanSquare, stCorrelation,
   stLaggedCorelation, stCovariance, stLaggedCovariance, stAutocorrelation,
   stAutocovariance, stMeanAbsoluteDifference, stLinearRegression,
   stGeometricMean, stMedian, stRankIn}

\* the table has `count` distinct labels, each with nargsMin <= nargsMax, and a
\* step of stats on one of them only opens the prompt with its descriptor
StatsMenu(count) ==
  /\ Cardinality(DOMAIN statsFuncs) = count
  /\ DOMAIN statsFuncs = StatsLabels
  /\ \A nm \in DOMAIN statsFuncs : statsFuncs[nm].nargsMin <= statsFuncs[nm].nargsMax
  /\ (last'.handler = "stats" /\ last'.nm \in StatsLabels)
       => /\ pop' = <<statsFuncs[last'.nm]>>
          /\ exc' = "none"
          /\ calls' = calls /\ pool' = pool /\ transcript' = transcript

\* C9, as amended: the descriptor table maps exactly fifteen distinct labels
\* to statistical operations, every descriptor has nargsMin <= nargsMax, and
\* selecting one of these labels only opens the configuration prompt with that
\* label's descriptor: no library call, no variable added, no transcript entry.
C9_StatsTable == [][ StatsMenu(15) ]_vars

\* C9, as stated: the descriptor table maps exactly sixteen distinct labels ...
C9_AsStated == [][ StatsMenu(16) ]_vars

\* C9: the prompt is open with the descriptor of "Lagged Covariance"
C9_Witness ==
  /\ last.handler = "stats" /\ last.nm = stLaggedCovariance
  /\ Len(pop) = 1 /\ pop[1].func = "genutil.statistics.laggedcovariance"
  /\ pop[1].nargsMin = 2 /\ pop[1].nargsMax = 2

\* C10: seasons: for every menu, every aggregation label and every selected
\* variable, two entries are appended per variable, the header then the
\* assignment line, and the header is a comment beginning with "## Computing ".
C10_SeasonsHeaderIsComment ==
  [][ (last'.handler = "seasons" /\ last'.nm \in SeasonLabels)
      => /\ Len(transcript') = Len(transcript) + 2 * Processed(last')
         /\ \A j \in 1..Processed(last') :
              /\ StartsWith(transcript'[Len(transcript) + 2 * j - 1],
                            <<"#","#"," ","C","o","m","p","u","t","i","n","g"," ">>)
              /\ Contains(transcript'[Len(transcript) + 2 * j], <<" ","="," ">>) ]_vars

====
